---------------------------- MODULE Spec2Model ----------------------------
(***************************************************************************)
(* A model of the parallel Wordle solver (package wordle).                 *)
(*                                                                         *)
(*   hint.go     createHint, letterHint, wordHint   (src/unnamed/part_001) *)
(*   constraint  satisfies, filter, filterNum       (src/wordle.go)        *)
(*   entropy.go  workers, pool, sharding            (src/unnamed/part_000) *)
(*   game.go     Game.Play, Game.getBestGuess       (src/unnamed/part_000) *)
(*   players.go  humanPlayer, computerPlayer        (src/players.go)       *)
(*                                                                         *)
(* Words are sequences of one-letter strings, indexed from 1 (Go indexes   *)
(* from 0; worker numbers and hint-table offsets keep Go's 0-based         *)
(* values).  A float64 entropy is modelled by the exact real number it     *)
(* approximates, see the section on entropy values.                        *)
(***************************************************************************)
EXTENDS Integers, Sequences, FiniteSets, TLC

(***************************************************************************)
(* Program constants.                                                      *)
(***************************************************************************)
\* wordle.go: const wordSize = 5
wordSize == 5

\* hint.go: const ( absent letterHint = iota; present; correct )
absent == 0

present == 1

correct == 2

\* The index set of a word or of a wordHint ([wordSize]letterHint).
Idx == 1..wordSize

\* type wordHint [wordSize]letterHint
wordHint == [Idx -> {absent, present, correct}]

\* The zero value of wordHint: every letter absent.
zeroHint == [i \in Idx |-> absent]

(***************************************************************************)
(* Bounds of the model.                                                    *)
(***************************************************************************)
\* Longest dictionary a Game is constructed with.
MaxDict == 3

\* Largest runtime.NumCPU() of the machine a Game is played on.
MaxCPU == 2

\* Largest worker count a pool is constructed with in PoolSpec.
MaxPoolWorkers == 21

(***************************************************************************)
(* hint.go: createHint.                                                    *)
(***************************************************************************)
\* First pass (lines 63-71): an answer position whose letter equals the
\* guess letter at the same position maps to itself, every other one to -1.
pass1(guess, answer) ==
    [letterIndex \in Idx |-> IF guess[letterIndex] = answer[letterIndex]
                             THEN letterIndex ELSE -1]

\* firstUnused without the test unscramble[letterIndex2] == -1: an answer
\* letter already used may be used again.
RECURSIVE firstMatch(_, _, _, _)
firstMatch(answer, unscramble, guessLetter, letterIndex2) ==
    IF letterIndex2 > wordSize THEN 0
    ELSE IF answer[letterIndex2] = guessLetter
         THEN letterIndex2
         ELSE firstMatch(answer, unscramble, guessLetter, letterIndex2 + 1)

\* The inner loop of the second pass (lines 79-86): the first answer
\* position at or after letterIndex2 holding guessLetter whose mapping is
\* still -1, or 0 when the scan ends without a break.
RECURSIVE firstUnused(_, _, _, _)
firstUnused(answer, unscramble, guessLetter, letterIndex2) ==
    IF letterIndex2 > wordSize THEN 0
    ELSE IF answer[letterIndex2] = guessLetter /\ unscramble[letterIndex2] = -1
         THEN letterIndex2
         ELSE firstUnused(answer, unscramble, guessLetter, letterIndex2 + 1)

\* The values the map unscramble takes: every answer position mapped to a
\* guess position or to -1.
Unscramble == [Idx -> {-1} \cup Idx]

\* Second pass (lines 73-87), from guess position letterIndex on: scan[u, i]
\* is the map the loop ends with when it is about to run iteration i on u.
pass2(guess, answer, unscramble, letterIndex) ==
    LET scan[u \in Unscramble, i \in Nat] ==
            IF i > wordSize THEN u
            ELSE IF guess[i] # answer[i]
                 THEN LET found == firstUnused(answer, u, guess[i], 1)
                      IN  scan[IF found = 0 THEN u
                               ELSE [u EXCEPT ![found] = i], i + 1]
                 ELSE scan[u, i + 1]
    IN  scan[unscramble, letterIndex]

\* The final loop with a default case that writes absent at the key: an
\* unmapped answer position clears the mark of the guess position with the
\* same index, so the hint depends on the order of the visits.
hintFromMappingClearing(unscramble, order, hint) ==
    LET visit[u \in Unscramble, keys \in Seq(Idx), h \in wordHint] ==
            IF keys = <<>> THEN h
            ELSE LET index   == Head(keys)
                     mapping == u[index]
                 IN  visit[u, Tail(keys),
                         IF mapping = index THEN [h EXCEPT ![mapping] = correct]
                         ELSE IF mapping # -1 THEN [h EXCEPT ![mapping] = present]
                         ELSE [h EXCEPT ![index] = absent]]
    IN  visit[unscramble, order, hint]

\* The final loop (lines 91-102) ranges over the map unscramble, so visits
\* its keys in an order the Go runtime chooses: order is that order.
\* visit[u, keys, h] is the hint the loop ends with when keys are the keys
\* of u it has yet to visit and h the hint so far.
hintFromMapping(unscramble, order, hint) ==
    LET visit[u \in Unscramble, keys \in Seq(Idx), h \in wordHint] ==
            IF keys = <<>> THEN h
            ELSE LET index   == Head(keys)
                     mapping == u[index]
                 IN  visit[u, Tail(keys),
                         IF mapping = index THEN [h EXCEPT ![mapping] = correct]
                         ELSE IF mapping # -1 THEN [h EXCEPT ![mapping] = present]
                         ELSE h]
    IN  visit[unscramble, order, hint]

\* createHint with the map iteration order made explicit.
createHintIn(guess, answer, order) ==
    hintFromMapping(pass2(guess, answer, pass1(guess, answer), 1), order, zeroHint)

\* The keys of unscramble in increasing order.
keyOrder == [i \in Idx |-> i]

\* createHint(guess, answer): the hint associated with guess if the actual
\* word is answer.
createHint(guess, answer) == createHintIn(guess, answer, keyOrder)

(***************************************************************************)
(* constraint (wordle.go).  A constraint is a record [hint, word].         *)
(***************************************************************************)
\* A constraint that the guessed word itself always satisfies.
satisfiesOrIsGuess(c, word) == createHint(c.word, word) = c.hint \/ word = c.word

\* satisfies: word, taken as the answer, gives c.word the hint c.hint.
satisfies(c, word) == createHint(c.word, word) = c.hint

\* filterFrom keeping the words that do not satisfy c.
RECURSIVE filterFromRejected(_, _, _, _)
filterFromRejected(c, dictionary, i, result) ==
    IF i > Len(dictionary) THEN result
    ELSE filterFromRejected(c, dictionary, i + 1,
                            IF satisfies(c, dictionary[i])
                            THEN result ELSE Append(result, dictionary[i]))

\* filterFrom putting each word kept in front of result.
RECURSIVE filterFromReversed(_, _, _, _)
filterFromReversed(c, dictionary, i, result) ==
    IF i > Len(dictionary) THEN result
    ELSE filterFromReversed(c, dictionary, i + 1,
                            IF satisfies(c, dictionary[i])
                            THEN <<dictionary[i]>> \o result ELSE result)

\* filter: the loop over dictionary from position i on, appending to result.
RECURSIVE filterFrom(_, _, _, _)
filterFrom(c, dictionary, i, result) ==
    IF i > Len(dictionary) THEN result
    ELSE filterFrom(c, dictionary, i + 1,
                    IF satisfies(c, dictionary[i])
                    THEN Append(result, dictionary[i]) ELSE result)

\* filter with a loop that starts at the second word.
filterSkippingFirst(c, dictionary) == filterFrom(c, dictionary, 2, <<>>)

filter(c, dictionary) == filterFrom(c, dictionary, 1, <<>>)

\* filterNum: the same loop, counting.
RECURSIVE filterNumFrom(_, _, _, _)
filterNumFrom(c, dictionary, i, result) ==
    IF i > Len(dictionary) THEN result
    ELSE filterNumFrom(c, dictionary, i + 1,
                       IF satisfies(c, dictionary[i]) THEN result + 1 ELSE result)

\* filterNum with a loop that starts at the second word.
filterNumSkippingFirst(c, dictionary) == filterNumFrom(c, dictionary, 2, 0)

filterNum(c, dictionary) == filterNumFrom(c, dictionary, 1, 0)

(***************************************************************************)
(* entropy.go: the table of all word hints.                                *)
(***************************************************************************)
\* The odometer step without its carry: a correct digit goes back to absent
\* and the next position is left alone.
advanceWithoutCarry(current, index) ==
    [overflow |-> FALSE,
     current  |-> [current EXCEPT ![index] = (current[index] + 1) % (correct + 1)]]

\* The odometer step of allPossibleWordHints (lines 187-196): the carry
\* loop from position index on.  overflow is the return of line 193, taken
\* when the carry leaves the last position.
RECURSIVE advance(_, _)
advance(current, index) ==
    IF current[index] = correct
    THEN IF index = wordSize
         THEN [overflow |-> TRUE, current |-> [current EXCEPT ![index] = absent]]
         ELSE advance([current EXCEPT ![index] = absent], index + 1)
    ELSE [overflow |-> FALSE, current |-> [current EXCEPT ![index] = current[index] + 1]]

\* One iteration of the outer loop (lines 184-197), for entry i (0-based, as
\* in the code), on the loop state st = [result, current, returned].  Once
\* line 193 has returned, nothing more runs.
fillHint(st, i) ==
    IF st.returned THEN st
    ELSE LET next == advance(st.current, 1)
         IN  [result   |-> [st.result EXCEPT ![i + 1] = st.current],
              current  |-> next.current,
              returned |-> next.overflow]

\* The iterations lo, lo+1, ..., hi-1 of the outer loop, in this order.
RECURSIVE fillHints(_, _, _)
fillHints(st, lo, hi) ==
    IF hi <= lo THEN st
    ELSE IF hi = lo + 1 THEN fillHint(st, lo)
    ELSE LET mid   == (lo + hi) \div 2
             first == fillHints(st, lo, mid)
         IN  IF first.returned THEN first ELSE fillHints(first, mid, hi)

\* allPossibleWordHints: result is what it returns; panicked is the panic of
\* line 199, reached when the loop runs out without returning.
allPossibleWordHints ==
    LET size == 3 ^ wordSize
        st   == fillHints([result   |-> [i \in 1..size |-> zeroHint],
                           current  |-> zeroHint,
                           returned |-> FALSE], 0, size)
    IN  [panicked |-> ~st.returned, result |-> st.result]

\* var possibleWordHints = allPossibleWordHints()
possibleWordHints == allPossibleWordHints.result

numPossibleWordHints == Len(possibleWordHints)

(***************************************************************************)
(* Entropy values.                                                         *)
(*                                                                         *)
(* Every entropy the program computes for a dictionary of n words is a sum *)
(* of terms (k/n) * log2(n/k), k a count of words.  Such a sum e is        *)
(* modelled exactly, by the rational number 2^(n*e) in lowest terms: the   *)
(* term of k is (n/k)^k, adding entropies multiplies the rationals, 0.0 is *)
(* 1/1, and e1 > e2 iff the rational of e1 is the greater.  Entropies are  *)
(* only ever added or compared within one dictionary, so n is fixed.  The  *)
(* rounding of the float64 operations is not modelled.                     *)
(***************************************************************************)
\* The greatest common divisor of a and b, by Euclid's algorithm.
gcd(a, b) ==
    LET euclid[x \in Nat, y \in Nat] == IF y = 0 THEN x ELSE euclid[y, x % y]
    IN  euclid[a, b]

\* The rational num/den in lowest terms.
lowest(num, den) ==
    LET reduce[n \in Nat, d \in Nat] ==
            [num |-> n \div gcd(n, d), den |-> d \div gcd(n, d)]
    IN  reduce[num, den]

\* var entropy float64 (the zero value), sum := 0.0, bestEntropy = 0.0
zeroEntropy == [num |-> 1, den |-> 1]

\* The float64 NaN: it is not greater than anything, nothing is greater
\* than it, and a sum it enters is NaN.
NaN == [num |-> 0, den |-> 0]

\* math.Log2(probability) * probability: the logarithm of the probability
\* itself, not of its inverse.
informationOfProbability(remainingSize, dictionarySize) ==
    IF remainingSize = 0 THEN NaN
    ELSE lowest(remainingSize ^ remainingSize, dictionarySize ^ remainingSize)

\* math.Log2(1/probability) * probability,
\* with probability = remainingSize / dictionarySize.  For remainingSize 0
\* the probability is 0, 1/probability is +Inf, its logarithm +Inf, and
\* +Inf * 0 is NaN.
information(remainingSize, dictionarySize) ==
    IF remainingSize = 0 THEN NaN
    ELSE lowest(dictionarySize ^ remainingSize, remainingSize ^ remainingSize)

\* x + y
addEntropy(x, y) ==
    IF x = NaN \/ y = NaN THEN NaN
    ELSE lowest(x.num * y.num, x.den * y.den)

\* x > y
greaterEntropy(x, y) == x.num * y.den > y.num * x.den

\* The literal 6.194052544375467 of getBestGuess (line 315).
firstGuessEntropy == [literal |-> "6.194052544375467"]

(***************************************************************************)
(* entropy.go: entropyWorker.calculateEntropy, the loop over e.hints.      *)
(***************************************************************************)
\* The values a float64 entropy takes.
Entropy == [num : Nat, den : Nat]

\* The loop over e.hints (lines 67-81) skips, by its continue, every hint
\* that no word of dictionary satisfies: the hints it adds a term for, in
\* the order of e.hints.
possibleHints(hints, word, dictionary) ==
    LET remains(hint) == filterNum([hint |-> hint, word |-> word], dictionary) # 0
    IN  SelectSeq(hints, remains)

\* The partial entropy a worker owning hints reports for a job: the
\* iterations of that loop that are not skipped, iterate[possible, i, entropy]
\* being the value returned when the loop is about to read possible[i] with
\* entropy accumulated so far.
workerEntropy(hints, word, dictionary) ==
    LET iterate[possible \in Seq(wordHint), i \in Nat, entropy \in Entropy] ==
            IF i > Len(possible) THEN entropy
            ELSE LET remainingSize ==
                         filterNum([hint |-> possible[i], word |-> word], dictionary)
                 IN  iterate[possible, i + 1,
                         addEntropy(entropy,
                             information(remainingSize, Len(dictionary)))]
    IN  iterate[possibleHints(hints, word, dictionary), 1, zeroEntropy]

(***************************************************************************)
(* entropy.go: newEntropyWorkerPool, the sharding of the hint table.       *)
(***************************************************************************)
\* hintsPerWorker := (numPossibleWordHints / numWorkers) + 1
hintsPerWorker(numWorkers) == (numPossibleWordHints \div numWorkers) + 1

\* startHint := workerNum * hintsPerWorker
startHint(numWorkers, workerNum) == workerNum * hintsPerWorker(numWorkers)

\* stopHint := (workerNum + 1) * hintsPerWorker, cut at numPossibleWordHints
stopHint(numWorkers, workerNum) ==
    IF (workerNum + 1) * hintsPerWorker(numWorkers) > numPossibleWordHints
    THEN numPossibleWordHints
    ELSE (workerNum + 1) * hintsPerWorker(numWorkers)

\* possibleWordHints[startHint:stopHint] panics (slice bounds out of range)
\* when startHint > stopHint.
sliceInRange(numWorkers, workerNum) ==
    startHint(numWorkers, workerNum) <= stopHint(numWorkers, workerNum)

\* A shard that stops one pattern short of stopHint.
shardWithoutLast(numWorkers, workerNum) ==
    SubSeq(possibleWordHints, startHint(numWorkers, workerNum) + 1,
           stopHint(numWorkers, workerNum) - 1)

\* hints: possibleWordHints[startHint:stopHint], the shard of worker workerNum.
shard(numWorkers, workerNum) ==
    SubSeq(possibleWordHints, startHint(numWorkers, workerNum) + 1,
           stopHint(numWorkers, workerNum))

\* The worker numbers of a pool of numWorkers workers.
Workers(numWorkers) == 0..(numWorkers - 1)

\* newEntropyWorkerPool(numWorkers): the pool, or the panic of line 125.
newEntropyWorkerPool(numWorkers) ==
    IF \A workerNum \in Workers(numWorkers) : sliceInRange(numWorkers, workerNum)
    THEN [panicked   |-> FALSE,
          numWorkers |-> numWorkers,
          hints      |-> [workerNum \in Workers(numWorkers) |-> shard(numWorkers, workerNum)]]
    ELSE [panicked |-> TRUE, numWorkers |-> numWorkers, hints |-> <<>>]

\* collectWorkerResults, lines 151-154: the sum of results[0], results[1],
\* ..., in this order, from workerNum on.
RECURSIVE sumFrom(_, _, _, _)
sumFrom(results, numWorkers, workerNum, sum) ==
    IF workerNum >= numWorkers THEN sum
    ELSE sumFrom(results, numWorkers, workerNum + 1, addEntropy(sum, results[workerNum]))

\* entropyWorkerPool.calculateEntropy as a function: what a call returns
\* once every worker of pool has reported for (word, dictionary).
poolEntropy(pool, word, dictionary) ==
    sumFrom([workerNum \in Workers(pool.numWorkers) |->
                workerEntropy(pool.hints[workerNum], word, dictionary)],
            pool.numWorkers, 0, zeroEntropy)

(***************************************************************************)
(* The words and dictionaries of the model.                                *)
(***************************************************************************)
tares == <<"t", "a", "r", "e", "s">>

ddddd == <<"d", "d", "d", "d", "d">>

ccbbb == <<"c", "c", "b", "b", "b">>

bbbcc == <<"b", "b", "b", "c", "c">>

ababa == <<"a", "b", "a", "b", "a">>

aabbb == <<"a", "a", "b", "b", "b">>

\* The words games are played with: the first guess of getBestGuess, and
\* three words it gives the same hint (so that a first round can remove
\* nothing), of which ddddd tells the other two apart less well than they
\* tell the others apart.
GameWords == {tares, ddddd, ccbbb, bbbcc}

\* Lists of n unique words of words.
RECURSIVE UniqueLists(_, _)
UniqueLists(words, n) ==
    IF n = 0 THEN {<<>>}
    ELSE UNION {{Append(l, w) : w \in words \ {l[i] : i \in 1..Len(l)}} :
                l \in UniqueLists(words, n - 1)}

\* The dictionaries a Game is constructed with: ordered lists of unique
\* words of equal length, not empty.
Dictionaries == UNION {UniqueLists(GameWords, n) : n \in 1..MaxDict}

Range(seq) == {seq[i] : i \in 1..Len(seq)}

(***************************************************************************)
(* The state.                                                              *)
(***************************************************************************)
VARIABLES
    \* Game (game.go)
    dictionary,     \* g.dictionary
    player,         \* g.p: [kind |-> "human" or "computer", answer |-> its answer]
    pc,             \* where Play is
    guessCount,     \* Play: guessCount
    best,           \* getBestGuess: best, then Play: bestGuess ("" is <<>>)
    bestEntropy,    \* getBestGuess: bestEntropy
    guessIndex,     \* getBestGuess: the position of potentialGuess, from 1
    guess,          \* Play: guess
    hint,           \* Play: hint
    ret,            \* what Play returned: <<answer, guessCount>>
    \* workerPool (entropy.go)
    numWorkers,     \* e.numWorkers = runtime.NumCPU()
    sendIndex,      \* calculateEntropy: the worker the next job goes to
    workerPC,       \* per worker: "idle" at <-e.jobs, "report" at e.result <-
    workerJob,      \* per worker: the job it received last
    workerOut,      \* per worker: the entropy it computed last
    resultsChan,    \* e.results, a channel of capacity numWorkers
    results,        \* collectWorkerResults: results
    collectorPC,    \* the goroutine of collectWorkerResults
    collected,      \* that goroutine's loop counter
    sum,            \* collectWorkerResults: sum
    sumIndex,       \* collectWorkerResults: workerNum of the summing loop
    \* history
    initial,        \* the dictionary the Game was constructed with
    submitted,      \* guesses obtained from the player so far
    hinted,         \* hints obtained from the player so far
    firstHit,       \* which guess first equalled the oracle's answer (0: none)
    bestGuessCalls, \* calls of getBestGuess so far
    jobsSent,       \* jobs handed to workers so far
    \* the call of a function under check (HintSpec, FilterSpec, PoolSpec)
    call,
    result

gameVars == <<dictionary, player, pc, guessCount, best, bestEntropy, guessIndex,
              guess, hint, ret>>

poolVars == <<numWorkers, sendIndex, workerPC, workerJob, workerOut, resultsChan,
              results, collectorPC, collected, sum, sumIndex>>

historyVars == <<initial, submitted, hinted, firstHit, bestGuessCalls, jobsSent>>

callVars == <<call, result>>

vars == <<gameVars, poolVars, historyVars, callVars>>

\* Rounds a human player plays before giving up (Play itself sets no limit).
MaxGuesses == 2

noWord == <<>>

noCall == [op |-> "none"]

(***************************************************************************)
(* Construction: NewGame / NewGameWithAnswer, and the package variable     *)
(* workerPool = newEntropyWorkerPool(runtime.NumCPU()).                    *)
(***************************************************************************)
\* The players: a human, or the computer with an answer of the dictionary
\* (main.go picks the answer among the valid words).
Players(d) ==
    {[kind |-> "human", answer |-> noWord]}
        \cup {[kind |-> "computer", answer |-> w] : w \in Range(d)}

\* The pool right after newEntropyWorkerPool: every worker waits for a job.
PoolInit(n) ==
    /\ numWorkers = n
    /\ sendIndex = 0
    /\ workerPC = [w \in Workers(n) |-> "idle"]
    /\ workerJob = [w \in Workers(n) |-> noCall]
    /\ workerOut = [w \in Workers(n) |-> zeroEntropy]
    /\ resultsChan = <<>>
    /\ results = <<>>
    /\ collectorPC = "none"
    /\ collected = 0
    /\ sum = zeroEntropy
    /\ sumIndex = 0

\* A Game right after construction with dictionary d and player p.
GameInit(d, p) ==
    /\ dictionary = d
    /\ player = p
    /\ pc = "loop"
    /\ guessCount = 1
    /\ best = noWord
    /\ bestEntropy = zeroEntropy
    /\ guessIndex = 0
    /\ guess = noWord
    /\ hint = zeroHint
    /\ ret = <<>>
    /\ initial = d
    /\ submitted = 0
    /\ hinted = 0
    /\ firstHit = 0
    /\ bestGuessCalls = 0
    /\ jobsSent = 0

Init ==
    /\ \E d \in Dictionaries : \E p \in Players(d) : GameInit(d, p)
    /\ \E n \in 1..MaxCPU : ~newEntropyWorkerPool(n).panicked /\ PoolInit(n)
    /\ call = noCall
    /\ result = noCall

(***************************************************************************)
(* game.go: Game.Play and Game.getBestGuess.                               *)
(***************************************************************************)
\* A loop that goes on until the dictionary is empty.
loopUntilEmpty(d) == Len(d) # 0

\* for len(g.dictionary) != 1
loopCondition(d) == Len(d) # 1

\* The head of Play's loop (line 254).  When the loop ends Play returns
\* g.dictionary[0] and guessCount (lines 295-298); otherwise it calls
\* getBestGuess(guessCount == 1), which returns at once for the first guess
\* (lines 314-316) and otherwise starts its loop over the dictionary.
PlayLoop ==
    /\ pc = "loop"
    /\ IF loopCondition(dictionary)
       THEN /\ player.kind = "human" => guessCount <= MaxGuesses
            /\ bestGuessCalls' = bestGuessCalls + 1
            /\ IF guessCount = 1
               THEN /\ best' = tares
                    /\ bestEntropy' = firstGuessEntropy
                    /\ pc' = "getGuess"
                    /\ UNCHANGED guessIndex
               ELSE /\ best' = noWord
                    /\ bestEntropy' = zeroEntropy
                    /\ guessIndex' = 1
                    /\ pc' = "rank"
            /\ UNCHANGED ret
       ELSE /\ ret' = <<dictionary[1], guessCount>>
            /\ pc' = "returned"
            /\ UNCHANGED <<best, bestEntropy, guessIndex, bestGuessCalls>>
    /\ UNCHANGED <<dictionary, player, guessCount, guess, hint>>
    /\ UNCHANGED <<poolVars, callVars, initial, submitted, hinted, firstHit, jobsSent>>

\* getBestGuess, line 320: the next potentialGuess, for which
\* workerPool.calculateEntropy is called (line 321), or the end of the loop
\* and the return of best, bestEntropy (line 332).
RankNext ==
    /\ pc = "rank"
    /\ IF guessIndex <= Len(dictionary)
       THEN /\ pc' = "send"
            /\ sendIndex' = 0
       ELSE /\ pc' = "getGuess"
            /\ UNCHANGED sendIndex
    /\ UNCHANGED <<dictionary, player, guessCount, best, bestEntropy, guessIndex,
                   guess, hint, ret>>
    /\ UNCHANGED <<numWorkers, workerPC, workerJob, workerOut, resultsChan, results,
                   collectorPC, collected, sum, sumIndex>>
    /\ UNCHANGED <<historyVars, callVars>>

\* The comparison with >= in place of >: a later word with the same entropy
\* takes the place of an earlier one.
keepBestOrEqual(potentialGuess, info, b, bEntropy) ==
    IF ~greaterEntropy(bEntropy, info)
    THEN [best |-> potentialGuess, bestEntropy |-> info]
    ELSE [best |-> b, bestEntropy |-> bEntropy]

\* if info > bestEntropy { best = potentialGuess; bestEntropy = info }
\* (lines 326-329): the pair kept.
keepBest(potentialGuess, info, b, bEntropy) ==
    IF greaterEntropy(info, bEntropy)
    THEN [best |-> potentialGuess, bestEntropy |-> info]
    ELSE [best |-> b, bestEntropy |-> bEntropy]

(***************************************************************************)
(* entropy.go: entropyWorkerPool.calculateEntropy, collectWorkerResults    *)
(* and the workers.                                                        *)
(***************************************************************************)
\* calculateEntropy, lines 163-168: worker <- job on the unbuffered channel
\* of worker sendIndex meets that worker's job := <-e.jobs (line 29).  The
\* worker then runs calculateEntropy over its hints up to its send on
\* e.result (lines 63-81), which reads the job and its own hints only.
SendJob ==
    /\ pc = "send"
    /\ sendIndex < numWorkers
    /\ workerPC[sendIndex] = "idle"
    /\ LET job == [word |-> dictionary[guessIndex], dictionary |-> dictionary]
       IN  /\ workerJob' = [workerJob EXCEPT ![sendIndex] = job]
           /\ workerOut' = [workerOut EXCEPT ![sendIndex] =
                  workerEntropy(shard(numWorkers, sendIndex), job.word, job.dictionary)]
    /\ workerPC' = [workerPC EXCEPT ![sendIndex] = "report"]
    /\ sendIndex' = sendIndex + 1
    /\ jobsSent' = jobsSent + 1
    /\ UNCHANGED <<gameVars, callVars>>
    /\ UNCHANGED <<numWorkers, resultsChan, results, collectorPC, collected, sum, sumIndex>>
    /\ UNCHANGED <<initial, submitted, hinted, firstHit, bestGuessCalls>>

\* A send on e.results can proceed while the channel holds fewer than its
\* capacity, numWorkers (line 105).
canSend(chan, capacity) == Len(chan) < capacity

\* entropyWorker.calculateEntropy, lines 83-86: the worker reports its
\* entropy, tagged with its number, and goes back to wait for a job.
WorkerReport(w) ==
    /\ workerPC[w] = "report"
    /\ canSend(resultsChan, numWorkers)
    /\ resultsChan' = Append(resultsChan, [workerNum |-> w, entropy |-> workerOut[w]])
    /\ workerPC' = [workerPC EXCEPT ![w] = "idle"]
    /\ UNCHANGED <<gameVars, historyVars, callVars>>
    /\ UNCHANGED <<numWorkers, sendIndex, workerJob, workerOut, results, collectorPC,
                   collected, sum, sumIndex>>

\* collectWorkerResults, lines 138-148: after the last job is sent, the
\* results slice is made, the collecting goroutine started, and the caller
\* waits on e.done.
CollectStart ==
    /\ pc = "send"
    /\ sendIndex = numWorkers
    /\ results' = [w \in Workers(numWorkers) |-> zeroEntropy]
    /\ collectorPC' = "recv"
    /\ collected' = 0
    /\ pc' = "waitDone"
    /\ UNCHANGED <<dictionary, player, guessCount, best, bestEntropy, guessIndex,
                   guess, hint, ret>>
    /\ UNCHANGED <<numWorkers, sendIndex, workerPC, workerJob, workerOut, resultsChan,
                   sum, sumIndex>>
    /\ UNCHANGED <<historyVars, callVars>>

\* A store in the slot of the arrival, results[workerNum] of the loop.
storeByArrival(buffer, received, loopIndex) ==
    [buffer EXCEPT ![loopIndex] = received.entropy]

\* results[result.workerNum] = result.entropy (line 143)
store(buffer, received, loopIndex) ==
    [buffer EXCEPT ![received.workerNum] = received.entropy]

\* The collecting goroutine, lines 141-144: one receive from e.results.
CollectorRecv ==
    /\ collectorPC = "recv"
    /\ collected < numWorkers
    /\ resultsChan # <<>>
    /\ results' = store(results, Head(resultsChan), collected)
    /\ resultsChan' = Tail(resultsChan)
    /\ collected' = collected + 1
    /\ UNCHANGED <<gameVars, historyVars, callVars>>
    /\ UNCHANGED <<numWorkers, sendIndex, workerPC, workerJob, workerOut, collectorPC,
                   sum, sumIndex>>

\* A loop that is over before any result is received.
noneCollected(n, count) == count = 0

\* A loop that is over one result early.
allButOneCollected(n, count) == count = n - 1

\* The collecting goroutine has received collected results: its loop is over
\* (line 141) when that is numWorkers.
allCollected(n, count) == count = n

\* e.done <- true (line 145) meets <-e.done (line 148); the caller goes on to
\* sum (line 151).
CollectorDone ==
    /\ collectorPC = "recv"
    /\ allCollected(numWorkers, collected)
    /\ pc = "waitDone"
    /\ collectorPC' = "none"
    /\ pc' = "sum"
    /\ sum' = zeroEntropy
    /\ sumIndex' = 0
    /\ UNCHANGED <<dictionary, player, guessCount, best, bestEntropy, guessIndex,
                   guess, hint, ret>>
    /\ UNCHANGED <<numWorkers, sendIndex, workerPC, workerJob, workerOut, resultsChan,
                   results, collected>>
    /\ UNCHANGED <<historyVars, callVars>>

\* sum += results[workerNum] (lines 152-154), one iteration.
SumStep ==
    /\ pc = "sum"
    /\ sumIndex < numWorkers
    /\ sum' = addEntropy(sum, results[sumIndex])
    /\ sumIndex' = sumIndex + 1
    /\ UNCHANGED <<gameVars, historyVars, callVars>>
    /\ UNCHANGED <<numWorkers, sendIndex, workerPC, workerJob, workerOut, resultsChan,
                   results, collectorPC, collected>>

\* calculateEntropy returns sum to getBestGuess (line 321), which keeps the
\* better of potentialGuess and best (lines 326-329) and moves on.
RankCompare ==
    /\ pc = "sum"
    /\ sumIndex = numWorkers
    /\ LET kept == keepBest(dictionary[guessIndex], sum, best, bestEntropy)
       IN  /\ best' = kept.best
           /\ bestEntropy' = kept.bestEntropy
    /\ guessIndex' = guessIndex + 1
    /\ pc' = "rank"
    /\ UNCHANGED <<dictionary, player, guessCount, guess, hint, ret>>
    /\ UNCHANGED <<poolVars, historyVars, callVars>>

(***************************************************************************)
(* players.go, and the rest of a round of Play.                            *)
(***************************************************************************)
\* computerPlayer.getGuess: the best guess.
computerGetGuess(bestGuess) == bestGuess

\* computerPlayer.getHint: the hint of guess against the answer.
computerGetHint(p, g) == createHint(g, p.answer)

\* humanPlayer.getGuess returns the best guess on an empty line and
\* otherwise the line typed, once it has wordSize letters and is no hint.
humanGuesses(bestGuess) == {bestGuess} \cup GameWords

\* humanPlayer.getHint returns any hint typed as wordSize letters of b, g, y:
\* here the hints a human reads off a puzzle whose answer is any of the
\* words, in the dictionary or not, and two mistyped ones.
humanHints(g) ==
    {createHint(g, w) : w \in GameWords}
        \cup {zeroHint, [i \in Idx |-> IF i = 1 THEN present ELSE correct]}

\* guess := g.p.getGuess(bestGuess) (line 265)
GetGuess(g) ==
    /\ guess' = g
    /\ submitted' = submitted + 1
    /\ firstHit' = IF firstHit = 0 /\ player.kind = "computer" /\ g = player.answer
                   THEN submitted + 1 ELSE firstHit
    /\ pc' = "getHint"
    /\ UNCHANGED <<dictionary, player, guessCount, best, bestEntropy, guessIndex, hint, ret>>
    /\ UNCHANGED <<poolVars, callVars, initial, hinted, bestGuessCalls, jobsSent>>

ComputerGetGuess ==
    /\ pc = "getGuess"
    /\ player.kind = "computer"
    /\ GetGuess(computerGetGuess(best))

HumanGetGuess ==
    /\ pc = "getGuess"
    /\ player.kind = "human"
    /\ \E g \in humanGuesses(best) : GetGuess(g)

\* hint := g.p.getHint(guess) (line 266)
GetHint(h) ==
    /\ hint' = h
    /\ hinted' = hinted + 1
    /\ pc' = "filter"
    /\ UNCHANGED <<dictionary, player, guessCount, best, bestEntropy, guessIndex, guess, ret>>
    /\ UNCHANGED <<poolVars, callVars, initial, submitted, firstHit, bestGuessCalls, jobsSent>>

ComputerGetHint ==
    /\ pc = "getHint"
    /\ player.kind = "computer"
    /\ GetHint(computerGetHint(player, guess))

HumanGetHint ==
    /\ pc = "getHint"
    /\ player.kind = "human"
    /\ \E h \in humanHints(guess) : GetHint(h)

\* Play without the check of lines 286-290.
afterFilterNoCheck(d) == "loop"

\* if len(g.dictionary) == 0 { panic(...) } (lines 286-290): where Play goes
\* after filtering.
afterFilter(d) == IF Len(d) = 0 THEN "panic" ELSE "loop"

\* Lines 273-292: the dictionary is filtered by the constraint of the guess
\* and its hint; Play panics when nothing is left, and otherwise counts the
\* guess and loops.
Filter ==
    /\ pc = "filter"
    /\ LET c == [hint |-> hint, word |-> guess]
       IN  dictionary' = filter(c, dictionary)
    /\ pc' = afterFilter(dictionary')
    /\ guessCount' = IF pc' = "panic" THEN guessCount ELSE guessCount + 1
    /\ UNCHANGED <<player, best, bestEntropy, guessIndex, guess, hint, ret>>
    /\ UNCHANGED <<poolVars, historyVars, callVars>>

Next ==
    \/ PlayLoop
    \/ RankNext
    \/ SendJob
    \/ \E w \in Workers(numWorkers) : WorkerReport(w)
    \/ CollectStart
    \/ CollectorRecv
    \/ CollectorDone
    \/ SumStep
    \/ RankCompare
    \/ ComputerGetGuess
    \/ HumanGetGuess
    \/ ComputerGetHint
    \/ HumanGetHint
    \/ Filter

Spec == Init /\ [][Next]_vars

\* The games of the computer player (NewGameWithAnswer), in which the human
\* player's steps do not occur.
OracleInit == Init /\ player.kind = "computer"

OracleNext ==
    \/ PlayLoop
    \/ RankNext
    \/ SendJob
    \/ \E w \in Workers(numWorkers) : WorkerReport(w)
    \/ CollectStart
    \/ CollectorRecv
    \/ CollectorDone
    \/ SumStep
    \/ RankCompare
    \/ ComputerGetGuess
    \/ ComputerGetHint
    \/ Filter

\* The Go scheduler runs a goroutine that can run: Play, the workers and the
\* collecting goroutine all make progress while any of them can.
OracleSpec == OracleInit /\ [][OracleNext]_vars /\ WF_vars(OracleNext)

(***************************************************************************)
(* Functions under check: a call is drawn in the initial state and one     *)
(* action applies the function to it.  No Game is being played.            *)
(***************************************************************************)
NoGame ==
    /\ dictionary = <<>>
    /\ player = [kind |-> "none", answer |-> noWord]
    /\ pc = "none"
    /\ guessCount = 1
    /\ best = noWord
    /\ bestEntropy = zeroEntropy
    /\ guessIndex = 0
    /\ guess = noWord
    /\ hint = zeroHint
    /\ ret = <<>>
    /\ initial = <<>>
    /\ submitted = 0
    /\ hinted = 0
    /\ firstHit = 0
    /\ bestGuessCalls = 0
    /\ jobsSent = 0
    /\ PoolInit(1)

\* --- createHint ---------------------------------------------------------
HintLetters == {"a", "b", "c"}

\* Every word of wordSize letters over HintLetters.
HintWords == [Idx -> HintLetters]

\* Orders in which the final loop of createHint may visit the map's keys.
MapOrders == {keyOrder, <<5, 4, 3, 2, 1>>, <<3, 1, 5, 2, 4>>, <<2, 5, 1, 4, 3>>}

HintInit ==
    /\ NoGame
    /\ \E g \in HintWords \cup GameWords, a \in HintWords, o \in MapOrders :
          call = [op |-> "createHint", guess |-> g, answer |-> a, order |-> o]
    /\ result = noCall

CallCreateHint ==
    /\ call.op = "createHint"
    /\ result = noCall
    /\ result' = [op |-> "createHint",
                  hint |-> createHintIn(call.guess, call.answer, call.order)]
    /\ UNCHANGED <<gameVars, poolVars, historyVars, call>>

HintSpec == HintInit /\ [][CallCreateHint]_vars

\* --- constraint ---------------------------------------------------------
FilterWords == GameWords \cup {ababa, aabbb}

\* Dictionaries handed to filter and filterNum (an empty one included).
FilterDictionaries == UNION {UniqueLists(FilterWords, n) : n \in 0..MaxDict}

\* The hints of constraints: those word gets against some word, and two
\* that no word may give it.
FilterHints(word) ==
    {createHint(word, w) : w \in FilterWords}
        \cup {zeroHint, [i \in Idx |-> IF i = 1 THEN present ELSE correct]}

FilterInit ==
    /\ NoGame
    /\ \E word \in FilterWords, d \in FilterDictionaries :
          \E h \in FilterHints(word) :
             \E op \in {"satisfies", "filter", "filterNum"} :
                call = [op |-> op, c |-> [hint |-> h, word |-> word], dictionary |-> d]
    /\ result = noCall

\* c.satisfies(w), for every word w of the dictionary.
CallSatisfies ==
    /\ call.op = "satisfies"
    /\ result = noCall
    /\ result' = [op |-> "satisfies",
                  value |-> [i \in 1..Len(call.dictionary) |->
                                satisfies(call.c, call.dictionary[i])]]
    /\ UNCHANGED <<gameVars, poolVars, historyVars, call>>

CallFilter ==
    /\ call.op = "filter"
    /\ result = noCall
    /\ result' = [op |-> "filter", value |-> filter(call.c, call.dictionary)]
    /\ UNCHANGED <<gameVars, poolVars, historyVars, call>>

CallFilterNum ==
    /\ call.op = "filterNum"
    /\ result = noCall
    /\ result' = [op |-> "filterNum", value |-> filterNum(call.c, call.dictionary)]
    /\ UNCHANGED <<gameVars, poolVars, historyVars, call>>

FilterNext == CallSatisfies \/ CallFilter \/ CallFilterNum

FilterSpec == FilterInit /\ [][FilterNext]_vars

\* --- allPossibleWordHints -----------------------------------------------
\* result := make([]wordHint, int(math.Pow(3, wordSize))); var current
\* wordHint; i := 0 (lines 180-184).
TableInit ==
    /\ NoGame
    /\ call = [op |-> "allPossibleWordHints", i |-> 0]
    /\ result = [op |-> "allPossibleWordHints",
                 st |-> [result   |-> [k \in 1..(3 ^ wordSize) |-> zeroHint],
                         current  |-> zeroHint,
                         returned |-> FALSE]]

\* One iteration of the outer loop (lines 184-197).
TableStep ==
    /\ call.op = "allPossibleWordHints"
    /\ ~result.st.returned
    /\ call.i < Len(result.st.result)
    /\ result' = [result EXCEPT !.st = fillHint(result.st, call.i)]
    /\ call' = [call EXCEPT !.i = call.i + 1]
    /\ UNCHANGED <<gameVars, poolVars, historyVars>>

TableSpec == TableInit /\ [][TableStep]_vars

\* --- the pool as a function ---------------------------------------------
PoolInputInit ==
    /\ NoGame
    /\ \E n \in 1..MaxPoolWorkers, d \in Dictionaries : \E word \in Range(d) \cup {tares} :
          call = [op |-> "newEntropyWorkerPool", numWorkers |-> n,
                  word |-> word, dictionary |-> d]
    /\ result = noCall

\* newEntropyWorkerPool(numWorkers)
CallNewPool ==
    /\ call.op = "newEntropyWorkerPool"
    /\ result = noCall
    /\ result' = [op |-> "newEntropyWorkerPool",
                  panicked |-> newEntropyWorkerPool(call.numWorkers).panicked,
                  entropy |-> zeroEntropy]
    /\ UNCHANGED <<gameVars, poolVars, historyVars, call>>

\* pool.calculateEntropy(word, dictionary), on the pool constructed
CallCalculateEntropy ==
    /\ result.op = "newEntropyWorkerPool"
    /\ ~result.panicked
    /\ result' = [op |-> "calculateEntropy",
                  panicked |-> FALSE,
                  entropy |-> poolEntropy(newEntropyWorkerPool(call.numWorkers),
                                          call.word, call.dictionary)]
    /\ UNCHANGED <<gameVars, poolVars, historyVars, call>>

PoolNext == CallNewPool \/ CallCalculateEntropy

PoolSpec == PoolInputInit /\ [][PoolNext]_vars

(***************************************************************************)
(* Properties.                                                             *)
(***************************************************************************)
\* x == y, as entropies
sameEntropy(x, y) == x # NaN /\ y # NaN /\ x.num * y.den = y.num * x.den

\* Play is inside a call of workerPool.calculateEntropy.
InCall == pc \in {"send", "waitDone", "sum"}

\* The job of the call Play is in.
currentJob == [word |-> dictionary[guessIndex], dictionary |-> dictionary]

\* The results of worker w waiting in e.results.
waiting(w) == {i \in 1..Len(resultsChan) : resultsChan[i].workerNum = w}

\* C1: with the computer player, whose answer is a word of the dictionary,
\* Play never panics, always ends up returning, and what it returns is the
\* player's answer.
C1_OracleGameIsSolved ==
    /\ [](player.kind = "computer" => pc # "panic")
    /\ [](player.kind = "computer" /\ pc = "returned" => ret[1] = player.answer)
    /\ <>(player.kind = "computer" => pc = "returned")

\* A game of the computer player that needed the ranking of a round after
\* the first, and returned the answer.
C1_Witness ==
    /\ player.kind = "computer"
    /\ pc = "returned"
    /\ ret[1] = player.answer
    /\ jobsSent > 0
    /\ Len(initial) = MaxDict

\* C2: for every worker count the pool is constructed (no panic), and the
\* entropy it returns for a word and a dictionary is the sum over the whole
\* hint table, whatever the worker count.
C2_PoolsAgreeForEveryWorkerCount ==
    /\ result.op = "newEntropyWorkerPool" => ~result.panicked
    /\ result.op = "calculateEntropy" =>
           sameEntropy(result.entropy,
                       workerEntropy(possibleWordHints, call.word, call.dictionary))

\* C3: during a call every worker's partial is, exactly once, on its way
\* (not sent yet, or waiting in e.results) or stored in the slot of that
\* worker; the summing starts only when all numWorkers partials are stored;
\* it adds the slots in increasing worker order; so what the call returns is
\* decided by the word, the dictionary and the worker count alone.
C3_PartialsStoredByWorkerAndSummedInOrder ==
    /\ pc \in {"waitDone", "sum"} =>
          /\ \A w \in Workers(numWorkers) :
                /\ Cardinality(waiting(w)) + (IF workerPC[w] = "report" THEN 1 ELSE 0) <= 1
                /\ \A i \in waiting(w) : resultsChan[i].entropy = workerOut[w]
                /\ (workerPC[w] = "idle" /\ waiting(w) = {}) => results[w] = workerOut[w]
          /\ collected = Cardinality({w \in Workers(numWorkers) :
                                         workerPC[w] = "idle" /\ waiting(w) = {}})
    /\ pc = "sum" =>
          /\ collected = numWorkers
          /\ resultsChan = <<>>
          /\ sum = sumFrom(results, sumIndex, 0, zeroEntropy)
          /\ sumIndex = numWorkers =>
                sum = poolEntropy(newEntropyWorkerPool(numWorkers),
                                  currentJob.word, currentJob.dictionary)

\* The partial of worker 1 is stored while that of worker 0, which differs
\* from it, has not been sent.
C3_Witness ==
    /\ pc = "waitDone"
    /\ numWorkers = 2
    /\ workerPC[0] = "report"
    /\ collected = 1
    /\ results[1] = workerOut[1]
    /\ workerOut[0] # workerOut[1]

\* C4: a call of calculateEntropy always returns to getBestGuess, and when
\* it gets to its sum every worker has received the job of this call and has
\* reported (it waits for a job again and its result has been taken).
C4_CallReturnsAfterAllWorkersReported ==
    /\ (pc = "send") ~> (pc = "rank")
    /\ [](pc = "sum" => \A w \in Workers(numWorkers) :
              /\ workerJob[w] = currentJob
              /\ workerPC[w] = "idle"
              /\ waiting(w) = {})

\* A call about to return, served by two workers.
C4_Witness ==
    /\ pc = "sum"
    /\ sumIndex = numWorkers
    /\ numWorkers = 2
    /\ \A w \in Workers(numWorkers) : workerJob[w] = currentJob /\ workerPC[w] = "idle"

\* The positions of word holding letter.
positions(word, letter) == {i \in Idx : word[i] = letter}

min(a, b) == IF a < b THEN a ELSE b

\* C5: createHint marks a position correct exactly when guess and answer
\* agree there; for every letter, the guess positions holding it that are
\* marked present or correct are as many as the lesser of its occurrences
\* in guess and in answer; a present mark never has to its left an unmarked
\* position with the same letter; and aabbb against ababa gives correct,
\* present, present, correct, absent.  This for every order in which the
\* final loop visits the map.
C5_CreateHintCreditsEachAnswerLetterOnce ==
    result.op = "createHint" =>
        LET guessed == call.guess
            answer  == call.answer
            h       == result.hint
            marked(letter) == {i \in positions(guessed, letter) : h[i] # absent}
        IN  /\ \A i \in Idx : h[i] = correct <=> guessed[i] = answer[i]
            /\ \A letter \in Range(guessed) \cup Range(answer) :
                  Cardinality(marked(letter)) =
                      min(Cardinality(positions(guessed, letter)),
                          Cardinality(positions(answer, letter)))
            /\ \A i, j \in Idx :
                  (i < j /\ guessed[i] = guessed[j] /\ h[j] = present) => h[i] # absent
            /\ (guessed = aabbb /\ answer = ababa) =>
                  h = <<correct, present, present, correct, absent>>

\* createHint has returned the hint of aabbb against ababa, the final loop
\* having visited the map from its last key to its first.
C5_Witness ==
    /\ result.op = "createHint"
    /\ call.guess = aabbb
    /\ call.answer = ababa
    /\ call.order = <<5, 4, 3, 2, 1>>
    /\ result.hint = <<correct, present, present, correct, absent>>

\* C13: createHint of a word against itself is the all-correct hint, and
\* for every pair of words createHint returns one hint, whatever the order
\* in which the final loop visits the keys of the map and however often it
\* is evaluated: no two keys of the map hold the same guess position, so no
\* position of the hint is written twice.
C13_CreateHintIsDeterministic ==
    result.op = "createHint" =>
        /\ LET u == pass2(call.guess, call.answer, pass1(call.guess, call.answer), 1)
           IN  \A i, j \in Idx : (i # j /\ u[i] # -1) => u[i] # u[j]
        /\ \A o \in MapOrders :
              result.hint = createHintIn(call.guess, call.answer, o)
        /\ result.hint = createHint(call.guess, call.answer)
        /\ call.guess = call.answer => result.hint = [i \in Idx |-> correct]

\* createHint has returned the all-correct hint of ababa against itself,
\* the final loop having visited the keys in a scattered order.
C13_Witness ==
    /\ result.op = "createHint"
    /\ call.guess = ababa
    /\ call.answer = ababa
    /\ call.order = <<3, 1, 5, 2, 4>>
    /\ result.hint = [i \in Idx |-> correct]

\* The positions of words whose word c accepts.
accepted(c, words) ==
    {i \in 1..Len(words) : createHint(c.word, words[i]) = c.hint}

\* C6: satisfies(w) is the equality of createHint(c.word, w) and c.hint;
\* filter returns the accepted words of the dictionary, each once and in
\* the dictionary's order; filterNum returns how many they are.
C6_FilterKeepsExactlyTheSatisfyingWords ==
    LET c == call.c
        d == call.dictionary
        keep(w) == createHint(c.word, w) = c.hint
    IN  /\ result.op = "satisfies" =>
              \A i \in 1..Len(d) : result.value[i] = keep(d[i])
        /\ result.op = "filter" =>
              /\ result.value = SelectSeq(d, keep)
              /\ Len(result.value) = Cardinality(accepted(c, d))
              /\ Len(result.value) = filterNum(c, d)
        /\ result.op = "filterNum" =>
              /\ result.value = Cardinality(accepted(c, d))
              /\ result.value = Len(filter(c, d))

\* filter has kept the first and the last of three words and dropped the
\* one between.
C6_Witness ==
    /\ result.op = "filter"
    /\ Len(call.dictionary) = 3
    /\ result.value = <<call.dictionary[1], call.dictionary[3]>>

\* C7: for every guess, filtering the dictionary by the hint an answer of
\* the dictionary gives that guess keeps the answer; and the dictionary of
\* a game played with the computer player always holds its answer.  (Every
\* dictionary of a game is the dictionary at the head of Play's loop.)
C7_AnswerSurvivesFiltering ==
    /\ pc = "loop" =>
          \A g \in FilterWords : \A i \in 1..Len(dictionary) :
              dictionary[i] \in
                  Range(filter([hint |-> createHint(g, dictionary[i]), word |-> g],
                               dictionary))
    /\ player.kind = "computer" => player.answer \in Range(dictionary)

\* A round of the computer player has removed a word and left the answer
\* among several.
C7_Witness ==
    /\ player.kind = "computer"
    /\ pc = "loop"
    /\ hinted > 0
    /\ 1 < Len(dictionary)
    /\ Len(dictionary) < Len(initial)
    /\ player.answer \in Range(dictionary)

\* C8: an empty dictionary is a panic, in which Play has returned nothing,
\* and from which nothing more happens.
C8_EmptyDictionaryPanics ==
    /\ [](Len(dictionary) = 0 => pc = "panic" /\ ret = <<>>)
    /\ [][pc # "panic"]_vars

\* The second round of a game has emptied a dictionary of several words.
C8_Witness ==
    /\ pc = "panic"
    /\ Len(dictionary) = 0
    /\ hinted = 2
    /\ Len(initial) > 1

\* C9: a Game constructed with a dictionary of one word never calls
\* getBestGuess, the player or the pool; at the head of its loop Play can
\* take its step, the only step such a Game takes is the return, and what
\* it returns is that word and the count 1.
C9_OneWordDictionaryReturnsAtOnce ==
    /\ [](Len(initial) = 1 =>
              /\ pc \in {"loop", "returned"}
              /\ pc = "loop" => ENABLED PlayLoop
              /\ pc = "returned" => ret = <<initial[1], 1>>
              /\ bestGuessCalls = 0
              /\ submitted = 0
              /\ hinted = 0
              /\ jobsSent = 0)
    /\ [][Len(initial) = 1 => pc' = "returned"]_vars

\* Play has returned from a Game constructed with one word.
C9_Witness ==
    /\ Len(initial) = 1
    /\ pc = "returned"
    /\ ret = <<initial[1], 1>>

\* C10: with the computer player, the count Play returns is the number of
\* guesses up to the first one equal to the answer, or, when no guess
\* equalled it, the number of guesses made and one more for the answer.
C10_CountIsGuessesNeeded ==
    (player.kind = "computer" /\ pc = "returned") =>
        ret[2] = IF firstHit # 0 THEN firstHit ELSE submitted + 1

\* The word hint whose letters are the base-3 digits of k, position 1 (the
\* code's index 0) holding the least significant one.
digits(k) == [j \in Idx |-> (k \div (3 ^ (j - 1))) % 3]

\* C11: the entries allPossibleWordHints has written are the base-3 digits
\* of their indices; its loop never runs out (the panic of line 199); and
\* when it returns it has written 3^wordSize entries, pairwise distinct,
\* that are all the word hints there are.  The table the pool is built on
\* is this one.
C11_TableIsTheOdometerOfAllHints ==
    LET st   == result.st
        size == 3 ^ wordSize
    IN  /\ Len(st.result) = size
        /\ \A k \in 0..(call.i - 1) : st.result[k + 1] = digits(k)
        /\ ~(call.i = size /\ ~st.returned)
        /\ st.returned =>
              /\ call.i = size
              /\ \A k, l \in 1..size : k # l => st.result[k] # st.result[l]
              /\ Range(st.result) = wordHint
              /\ st.result = possibleWordHints
              /\ ~allPossibleWordHints.panicked
              /\ numPossibleWordHints = size

\* allPossibleWordHints has returned, from its last iteration.
C11_Witness ==
    /\ call.op = "allPossibleWordHints"
    /\ result.st.returned
    /\ call.i = 3 ^ wordSize
    /\ result.st.result[3 ^ wordSize] = [j \in Idx |-> correct]

\* x >= 0.0
nonNegative(x) == x # NaN /\ x.num >= x.den

\* C12: the entropy a pool returns for a word and a dictionary that is not
\* empty is a number (no term was computed for a hint that no word
\* satisfies), it is not negative, and it is 0.0 when the dictionary has
\* one word.
C12_EntropyIsNonNegativeAndZeroForOneWord ==
    result.op = "calculateEntropy" =>
        /\ nonNegative(result.entropy)
        /\ Len(call.dictionary) = 1 => result.entropy = zeroEntropy

\* A pool of several workers has returned 0.0 for a dictionary of one word.
C12_Witness ==
    /\ result.op = "calculateEntropy"
    /\ call.numWorkers > 1
    /\ Len(call.dictionary) = 1
    /\ result.entropy = zeroEntropy

\* --- the shards of the hint table -----------------------------------------

\* The length of possibleWordHints[startHint:stopHint] for worker workerNum.
shardSize(n, w) ==
    stopHint(n, w) - startHint(n, w)

\* The workers whose range [startHint, stopHint) holds table index k.
owners(n, k) ==
    {w \in Workers(n) :
        startHint(n, w) <= k /\ k < stopHint(n, w)}

\* C14: for every worker count the ranges given to the workers are
\* contiguous (each starts where the previous one stops, the first at 0,
\* the last stopping at the end of the table), so every pattern of the
\* table is owned by exactly one worker, and no range starts beyond the end
\* of the table: the pool is constructed.
C14_ShardsPartitionTheTable ==
    result.op = "newEntropyWorkerPool" =>
        LET n == call.numWorkers
        IN  /\ ~result.panicked
            /\ \A w \in Workers(n) :
                  /\ startHint(n, w) <= numPossibleWordHints
                  /\ startHint(n, w) <= stopHint(n, w)
                  /\ w + 1 < n => stopHint(n, w) = startHint(n, w + 1)
            /\ startHint(n, 0) = 0
            /\ stopHint(n, n - 1) = numPossibleWordHints
            /\ \A k \in 0..(numPossibleWordHints - 1) : Cardinality(owners(n, k)) = 1

\* The least integer not below a / b.
ceilDiv(a, b) == (a + b - 1) \div b

\* C15: for every worker count N the shards have ceil(3^wordSize / N)
\* patterns each, until the table runs out: the shard that reaches the end
\* of the table is cut there and the shards after it are empty.
C15_ShardSizeIsTheCeiling ==
    result.op = "newEntropyWorkerPool" =>
        LET n    == call.numWorkers
            size == ceilDiv(numPossibleWordHints, n)
            left(w) == IF numPossibleWordHints > w * size
                       THEN numPossibleWordHints - w * size ELSE 0
        IN  /\ ~result.panicked
            /\ \A w \in Workers(n) : shardSize(n, w) = min(size, left(w))

\* --- getBestGuess ----------------------------------------------------------

\* What workerPool.calculateEntropy returns for word w and the Game's
\* dictionary.
rankedEntropy(w) == poolEntropy(newEntropyWorkerPool(numWorkers), w, dictionary)

\* C16: when getBestGuess returns from its loop (a round after the first),
\* the guess is a word of the dictionary, the entropy is that word's and is
\* above 0, no word of the dictionary has a greater entropy, and every word
\* before the guess in the dictionary has a strictly smaller one.
C16_BestGuessIsFirstMaximum ==
    (pc = "getGuess" /\ guessCount > 1) =>
        /\ Len(dictionary) >= 2
        /\ \E i \in 1..Len(dictionary) :
              /\ best = dictionary[i]
              /\ \A j \in 1..(i - 1) :
                    greaterEntropy(bestEntropy, rankedEntropy(dictionary[j]))
        /\ bestEntropy = rankedEntropy(best)
        /\ greaterEntropy(bestEntropy, zeroEntropy)
        /\ \A j \in 1..Len(dictionary) :
              ~greaterEntropy(rankedEntropy(dictionary[j]), bestEntropy)

\* getBestGuess has returned the second word of the dictionary, the first
\* having a smaller entropy and a later one the same.
C16_Witness ==
    /\ pc = "getGuess"
    /\ guessCount > 1
    /\ Len(dictionary) >= 3
    /\ best = dictionary[2]
    /\ bestEntropy = rankedEntropy(dictionary[3])
    /\ greaterEntropy(bestEntropy, rankedEntropy(dictionary[1]))

\* getBestGuess(false), lines 318-332, as a function of the Game's
\* dictionary: best and bestEntropy after the loop has visited the first i
\* words.
RECURSIVE rankUpTo(_)
rankUpTo(i) ==
    IF i = 0 THEN [best |-> noWord, bestEntropy |-> zeroEntropy]
    ELSE LET kept == rankUpTo(i - 1)
         IN  keepBest(dictionary[i], rankedEntropy(dictionary[i]),
                      kept.best, kept.bestEntropy)

\* C17: in the first round the guess and the entropy that getBestGuess
\* returns are those its ranking loop computes over the Game's dictionary.
C17_FirstGuessIsTheRankingResult ==
    (pc = "getGuess" /\ guessCount = 1) =>
        /\ best = rankUpTo(Len(dictionary)).best
        /\ bestEntropy = rankUpTo(Len(dictionary)).bestEntropy

\* --- the dictionary over the rounds ---------------------------------------

isSubsequence(kept, words) ==
    LET match[i \in 0..Len(kept), j \in 0..Len(words)] ==
            IF i = 0 THEN TRUE
            ELSE IF j = 0 THEN FALSE
            ELSE IF kept[i] = words[j] THEN match[i - 1, j - 1]
            ELSE match[i, j - 1]
    IN  match[Len(kept), Len(words)]

\* C19: a step that changes the dictionary is the filtering step of a
\* round (so getBestGuess, the player's getGuess and getHint, the workers
\* and the collecting goroutine leave it alone); it replaces the dictionary
\* by an order-preserving subsequence of it; and it is taken while every
\* worker waits for a job, no partial is in e.results and no collecting
\* goroutine runs.
C19_DictionaryChangesOnlyByFiltering ==
    [][dictionary' # dictionary =>
          /\ pc = "filter"
          /\ isSubsequence(dictionary', dictionary)
          /\ \A w \in Workers(numWorkers) : workerPC[w] = "idle"
          /\ resultsChan = <<>>
          /\ collectorPC = "none"]_vars

\* The filtering of a round after the first, whose ranking gave jobs to the
\* workers, has removed words and kept several.
C19_Witness ==
    /\ pc = "loop"
    /\ hinted >= 2
    /\ jobsSent > 0
    /\ 1 < Len(dictionary)
    /\ Len(dictionary) < Len(initial)
    /\ \A w \in Workers(numWorkers) : workerPC[w] = "idle"

\* --- the pool over serial calls --------------------------------------------

\* The partials of worker w on their way: computed and not sent yet, or
\* waiting in e.results.
outstanding(w) ==
    Cardinality(waiting(w)) + (IF workerPC[w] = "report" THEN 1 ELSE 0)

\* C20: over the serial calls of calculateEntropy on the pool, a worker has
\* at most one job's partial on its way; e.results never holds more than
\* numWorkers partials and a worker that wants to send always can; a job is
\* sent only to a worker with nothing on its way; outside a call e.results
\* is empty, every worker waits for a job and no collecting goroutine runs;
\* and each partial a call sums is the one its worker computed over the
\* word and the dictionary of that call.
C20_OneCallInFlight ==
    /\ Len(resultsChan) <= numWorkers
    /\ \A w \in Workers(numWorkers) :
          /\ outstanding(w) <= 1
          /\ workerPC[w] = "report" => canSend(resultsChan, numWorkers)
          /\ (pc = "send" /\ w >= sendIndex) => outstanding(w) = 0
    /\ ~InCall =>
          /\ resultsChan = <<>>
          /\ collectorPC = "none"
          /\ \A w \in Workers(numWorkers) : workerPC[w] = "idle"
    /\ pc = "sum" =>
          \A w \in Workers(numWorkers) :
              /\ workerJob[w] = currentJob
              /\ results[w] = workerOut[w]
              /\ sumIndex = 0 =>
                    results[w] = workerEntropy(shard(numWorkers, w), currentJob.word,
                                               currentJob.dictionary)

\* A later call on a pool of several workers is about to return: its
\* partials differ from those the workers computed for the call before.
C20_Witness ==
    /\ pc = "sum"
    /\ sumIndex = numWorkers
    /\ numWorkers > 1
    /\ guessIndex > 1
    /\ jobsSent >= 2 * numWorkers
    /\ \E w \in Workers(numWorkers) :
          /\ results[w] = workerOut[w]
          /\ results[w] # workerEntropy(shard(numWorkers, w), dictionary[guessIndex - 1],
                                        dictionary)

\* --- the probabilities of the hints ---------------------------------------

\* The remainingSize values of the loop of entropyWorker.calculateEntropy
\* (line 72) over hints, added up: filterNum of the constraint of each hint
\* and word w over words.
remainingTotal(hints, w, words) ==
    LET total[lo \in Nat, hi \in Nat] ==
            IF lo > hi THEN 0
            ELSE IF lo = hi
                 THEN filterNum([hint |-> hints[lo], word |-> w], words)
                 ELSE LET mid == (lo + hi) \div 2
                      IN  total[lo, mid] + total[mid + 1, hi]
    IN  total[1, Len(hints)]

\* The sum of remainingTotal over the shards of workers w, w + 1, ... of a
\* pool of n workers.
RECURSIVE shardsTotal(_, _, _, _)
shardsTotal(n, w, guessed, words) ==
    IF w >= n THEN 0
    ELSE remainingTotal(shard(n, w), guessed, words)
             + shardsTotal(n, w + 1, guessed, words)

\* C21: for the word and the dictionary of a call, every word of the
\* dictionary satisfies the constraint of exactly one pattern of the table;
\* so the filterNum counts over the whole table, over the patterns the loop
\* does not skip, and over the shards of all the workers of the pool, each
\* add up to the size of the dictionary (the probabilities add up to 1).
\* (What does not depend on the worker count is stated for the calls on the
\* pool of one worker, which cover every word and dictionary.)
C21_HintCountsAddUpToTheDictionary ==
    result.op = "calculateEntropy" =>
        LET words == call.dictionary
            w     == call.word
        IN  /\ call.numWorkers = 1 =>
                  /\ \A i \in 1..Len(words) :
                        Cardinality({k \in 1..numPossibleWordHints :
                            satisfies([hint |-> possibleWordHints[k], word |-> w],
                                      words[i])}) = 1
                  /\ remainingTotal(possibleWordHints, w, words) = Len(words)
                  /\ remainingTotal(possibleHints(possibleWordHints, w, words), w, words)
                        = Len(words)
            /\ shardsTotal(call.numWorkers, 0, w, words) = Len(words)

\* A pool of several workers has served a call in which two words of the
\* dictionary share a pattern and the word itself is in the dictionary.
C21_Witness ==
    /\ result.op = "calculateEntropy"
    /\ call.numWorkers > 1
    /\ Len(call.dictionary) = MaxDict
    /\ call.word \in Range(call.dictionary)
    /\ \E k \in 1..numPossibleWordHints :
          filterNum([hint |-> possibleWordHints[k], word |-> call.word],
                    call.dictionary) = 2

================================================================
